---- MODULE Spec2Model ----
(***************************************************************************)
(* AI StudyHub (src/app.py): extractive summary, quiz synthesis, grading   *)
(* and the Flask session that threads them.                                *)
(*                                                                         *)
(* Strings are sequences of one-character strings.  A text is a sequence   *)
(* of tokens (each a string); the token WS stands for a run of whitespace. *)
(* The NLTK tokenizers are library code: sent_tokenize ends a sentence     *)
(* after a terminator token and drops whitespace, word_tokenize yields the *)
(* non-whitespace tokens.                                                  *)
(***************************************************************************)
EXTENDS Integers, Sequences, FiniteSets, TLC

VARIABLES session, db, req, resp, quizFrom

vars == <<session, db, req, resp, quizFrom>>

(* ------------------------------ bounds --------------------------------- *)
\* longest document (in sentences) handed to extractive_summary
MaxDocSents == 5
\* largest num_sents handed to extractive_summary
MaxNumSents == 4
\* largest num_questions handed to generate_quiz
MaxQuestions == 6
\* longest summary (in sentences) handed to generate_quiz
MaxSummarySents == 3
\* the same two, for the calls that explore every outcome of random
MaxSystemQuestions == 2
MaxSystemSents == 1
\* longest answer list posted to /feedback when grading is checked alone
MaxAnswers == 6
\* longest answer list posted to /feedback inside a session
MaxSessionAnswers == 1
\* rows the log table takes before /feedback is no longer explored
MaxLog == 1

(* ------------------------------ strings -------------------------------- *)
LowerAlpha == <<"a","b","c","d","e","f","g","h","i","j","k","l","m",
                "n","o","p","q","r","s","t","u","v","w","x","y","z">>
UpperAlpha == <<"A","B","C","D","E","F","G","H","I","J","K","L","M",
                "N","O","P","Q","R","S","T","U","V","W","X","Y","Z">>
Digits == {"0","1","2","3","4","5","6","7","8","9"}
Range(f) == {f[i] : i \in DOMAIN f}
IndexIn(alpha, c) == CHOOSE i \in DOMAIN alpha : alpha[i] = c

\* str.lower() on one character
LowerChar(c) == IF c \in Range(UpperAlpha) THEN LowerAlpha[IndexIn(UpperAlpha, c)] ELSE c
\* str.upper() on one character
UpperChar(c) == IF c \in Range(LowerAlpha) THEN UpperAlpha[IndexIn(LowerAlpha, c)] ELSE c
\* str.lower()
Lower(s) == [i \in DOMAIN s |-> LowerChar(s[i])]
\* str.capitalize(): first character upper-cased, the rest lower-cased
Capitalize(s) == [i \in DOMAIN s |-> IF i = 1 THEN UpperChar(s[i]) ELSE LowerChar(s[i])]
\* str.isalnum(): non-empty and every character a letter or a digit
IsAlnum(s) ==
    /\ Len(s) > 0
    /\ \A i \in DOMAIN s : s[i] \in Range(LowerAlpha) \cup Range(UpperAlpha) \cup Digits

IsSpaceChar(c) == c \in {" ", "\n", "\t"}
RECURSIVE LStripBy(_, _)
LStripBy(s, drop) == IF s # <<>> /\ Head(s) \in drop THEN LStripBy(Tail(s), drop) ELSE s
RECURSIVE RStripBy(_, _)
RStripBy(s, drop) ==
    IF s # <<>> /\ s[Len(s)] \in drop THEN RStripBy(SubSeq(s, 1, Len(s) - 1), drop) ELSE s
\* str.strip() on a character string
StripStr(s) == RStripBy(LStripBy(s, {" ", "\n", "\t"}), {" ", "\n", "\t"})
\* str.strip('.,;:!?')
StripPunct(s) == RStripBy(LStripBy(s, {".", ",", ";", ":", "!", "?"}), {".", ",", ";", ":", "!", "?"})
\* the first offset (0-based) at which sub occurs in s, or -1: str.find
Find(sub, s) ==
    LET offs == {o \in 0..(Len(s) - Len(sub)) : SubSeq(s, o + 1, o + Len(sub)) = sub}
    IN IF offs = {} THEN -1 ELSE CHOOSE o \in offs : \A p \in offs : o <= p
\* the Python operator "sub in s" on strings
Contains(sub, s) == Find(sub, s) >= 0

(* ------------------------------ tokens --------------------------------- *)
WS == <<" ">>
NL == <<"\n">>
IsWs(tok) == tok # <<>> /\ \A i \in DOMAIN tok : IsSpaceChar(tok[i])
Terminators == {<<".">>, <<"!">>, <<"?">>}

\* str.strip() on a text: leading and trailing whitespace removed
Strip(text) == RStripBy(LStripBy(text, {WS, NL}), {WS, NL})

\* nltk word_tokenize: the tokens of the text, whitespace dropped
RECURSIVE word_tokenize(_)
word_tokenize(text) ==
    IF text = <<>> THEN <<>>
    ELSE IF IsWs(Head(text)) THEN word_tokenize(Tail(text))
    ELSE <<Head(text)>> \o word_tokenize(Tail(text))

\* nltk sent_tokenize: sentences in order, each ended by a terminator token
\* (the last one possibly unterminated)
RECURSIVE SentSplit(_, _)
SentSplit(toks, cur) ==
    IF toks = <<>> THEN (IF cur = <<>> THEN <<>> ELSE <<cur>>)
    ELSE IF Head(toks) \in Terminators
         THEN <<Append(cur, Head(toks))>> \o SentSplit(Tail(toks), <<>>)
         ELSE SentSplit(Tail(toks), Append(cur, Head(toks)))
sent_tokenize(text) == SentSplit(word_tokenize(text), <<>>)

\* sep.join(parts) for texts
RECURSIVE Join(_, _)
Join(sep, parts) ==
    IF parts = <<>> THEN <<>>
    ELSE IF Len(parts) = 1 THEN parts[1]
    ELSE parts[1] \o sep \o Join(sep, Tail(parts))

\* nltk stopwords.words('english'), the members the vocabulary can hit
stop_words == {<<"a","r","e">>, <<"t","h","e">>, <<"i","n">>}

(* -------------------------- extractive_summary ------------------------- *)
RECURSIVE Filter(_, _)
Filter(seq, keep) ==
    IF seq = <<>> THEN <<>>
    ELSE (IF Head(seq) \in keep THEN <<Head(seq)>> ELSE <<>>) \o Filter(Tail(seq), keep)
RECURSIVE SumSeq(_)
SumSeq(seq) == IF seq = <<>> THEN 0 ELSE Head(seq) + SumSeq(Tail(seq))
\* the keys of a dict filled in this order: first occurrences, in order
RECURSIVE Dedup(_)
Dedup(seq) ==
    IF seq = <<>> THEN <<>>
    ELSE LET init == Dedup(SubSeq(seq, 1, Len(seq) - 1))
         IN IF seq[Len(seq)] \in Range(init) THEN init ELSE Append(init, seq[Len(seq)])

\* words: lower-cased alphanumeric non-stop-word tokens of the whole text
DocWords(text) ==
    LET toks == word_tokenize(text)
        kept == {i \in DOMAIN toks : IsAlnum(toks[i]) /\ Lower(toks[i]) \notin stop_words}
    IN [w \in {Lower(toks[i]) : i \in kept} |->
           Cardinality({i \in kept : Lower(toks[i]) = w})]
\* sent_words: lower-cased alphanumeric tokens of one sentence
SentWords(sent) ==
    LET toks == word_tokenize(sent)
        low == [i \in DOMAIN toks |-> Lower(toks[i])]
    IN Filter(low, {low[i] : i \in {j \in DOMAIN toks : IsAlnum(toks[j])}})
\* score numerator: sum(freq[w] for w in sent_words if w in freq)
ScoreSum(sent, freq) ==
    LET sw == SentWords(sent)
    IN SumSeq([i \in DOMAIN sw |-> IF sw[i] \in DOMAIN freq THEN freq[sw[i]] ELSE 0])
\* scores[sent] = score / len(sent_words), kept as the fraction <<score, len>>
Scores(sentences, freq) ==
    [s \in {sentences[i] : i \in {j \in DOMAIN sentences : SentWords(sentences[j]) # <<>>}} |->
        <<ScoreSum(s, freq), Len(SentWords(s))>>]
\* a / b > c / d on fractions with positive denominators
FracGt(x, y) == x[1] * y[2] > y[1] * x[2]

\* sorted(keys, key=scores.get): ascending, stable
RECURSIVE SortedAscending(_, _)
SortedAscending(keys, sc) ==
    IF keys = <<>> THEN <<>>
    ELSE LET best == CHOOSE i \in DOMAIN keys :
                        /\ \A j \in DOMAIN keys : ~FracGt(sc[keys[i]], sc[keys[j]])
                        /\ \A j \in 1..(i - 1) : FracGt(sc[keys[j]], sc[keys[i]])
         IN <<keys[best]>> \o
            SortedAscending(SubSeq(keys, 1, best - 1) \o SubSeq(keys, best + 1, Len(keys)), sc)
\* sorted(keys, key=scores.get, reverse=True): descending by score, equal
\* scores staying in their original order (list.sort is stable under reverse)
RECURSIVE SortedDescending(_, _)
SortedDescending(keys, sc) ==
    IF keys = <<>> THEN <<>>
    ELSE LET best == CHOOSE i \in DOMAIN keys :
                        /\ \A j \in DOMAIN keys : ~FracGt(sc[keys[j]], sc[keys[i]])
                        /\ \A j \in 1..(i - 1) : FracGt(sc[keys[i]], sc[keys[j]])
         IN <<keys[best]>> \o
            SortedDescending(SubSeq(keys, 1, best - 1) \o SubSeq(keys, best + 1, Len(keys)), sc)

Prefix(seq, n) == SubSeq(seq, 1, IF n < Len(seq) THEN n ELSE Len(seq))

\* top_sentences of extractive_summary (the scoring branch)
TopSentences(text, num_sents) ==
    LET sentences == sent_tokenize(text)
        sc == Scores(sentences, DocWords(text))
        keys == Dedup(Filter(sentences, DOMAIN sc))
    IN Prefix(SortedDescending(keys, sc), num_sents)

extractive_summary(text, num_sents) ==
    LET sentences == sent_tokenize(text)
    IN IF Len(sentences) <= num_sents
       THEN Join(<<WS>>, sentences)
       ELSE Join(<<WS>>, TopSentences(text, num_sents))

(* ------------------------------ documents ------------------------------ *)
Dot == <<".">>
wCat == <<"c","a","t">>
wCatCap == <<"C","a","t">>
wFur == <<"f","u","r">>
wDog == <<"d","o","g">>
wAre == <<"a","r","e">>
wOk == <<"o","-","k">>
\* sentences a document is made of: "Cat are fur.", "dog.", "o-k!" (no
\* alphanumeric token), "cat cat."
SentencePool ==
    { <<wCatCap, wAre, wFur, Dot>>,
      <<wDog, Dot>>,
      <<wOk, <<"!">>>>,
      <<wCat, wCat, Dot>> }
RECURSIVE SeqsUpTo(_, _)
SeqsUpTo(S, n) ==
    IF n = 0 THEN {<<>>}
    ELSE LET shorter == SeqsUpTo(S, n - 1)
         IN shorter \cup {Append(q, x) : q \in {r \in shorter : Len(r) = n - 1}, x \in S}
\* the documents handed to extractive_summary: sentences joined by whitespace
Documents == {Join(<<WS>>, d) : d \in SeqsUpTo(SentencePool, MaxDocSents) \ {<<>>}}

(* ------------------------------- state --------------------------------- *)
NoStats == [present |-> FALSE]
NoResp == [status |-> 0]

EmptySession == [summary |-> <<>>, raw_text |-> <<>>, quiz |-> <<>>, stats |-> NoStats]

\* a pending call extractive_summary(text, num_sents)
InitSum ==
    /\ session = EmptySession
    /\ db = <<>>
    /\ \E text \in Documents, num_sents \in 1..MaxNumSents :
           req = [op |-> "extractive_summary", text |-> text, num_sents |-> num_sents]
    /\ resp = NoResp
    /\ quizFrom = <<>>

\* the call of extractive_summary returns
CallExtractiveSummary ==
    /\ req.op = "extractive_summary"
    /\ resp = NoResp
    /\ resp' = [status |-> 200, summary |-> extractive_summary(req.text, req.num_sents)]
    /\ UNCHANGED <<session, db, req, quizFrom>>

NextSum == CallExtractiveSummary
SpecSum == InitSum /\ [][NextSum]_vars

(* ------------------------- claims: summarizer -------------------------- *)
RECURSIVE IsSubseq(_, _)
IsSubseq(a, b) ==
    IF a = <<>> THEN TRUE
    ELSE IF b = <<>> THEN FALSE
    ELSE IF Head(a) = Head(b) THEN IsSubseq(Tail(a), Tail(b))
    ELSE IsSubseq(a, Tail(b))
\* the scoring branch of extractive_summary was taken
Scored == req.op = "extractive_summary" /\ resp # NoResp /\ Len(sent_tokenize(req.text)) > req.num_sents
Selected == sent_tokenize(resp.summary)
DocSents == sent_tokenize(req.text)
NormScore(s) == <<ScoreSum(s, DocWords(req.text)), Len(SentWords(s))>>
Scorable == {s \in Range(DocSents) : SentWords(s) # <<>>}
Min(a, b) == IF a < b THEN a ELSE b

\* C1: for a document with more sentences than targetCount, the summary's
\* sentences appear in the relative order they have in the document.
C1_DocumentOrder == Scored => IsSubseq(Selected, DocSents)

\* C2 as stated: exactly targetCount sentences are selected, none without
\* alphanumeric tokens, each scoring at least as high as every unselected one.
C2_ExactlyTargetCount ==
    Scored =>
        /\ Len(Selected) = req.num_sents
        /\ \A s \in Range(Selected) : SentWords(s) # <<>>
        /\ \A s \in Range(Selected) : \A u \in Scorable \ Range(Selected) :
               ~FracGt(NormScore(u), NormScore(s))

\* C2 amended: the number selected is the smaller of targetCount and the
\* number of distinct sentences that have an alphanumeric token; the selected
\* sentences are distinct, none is without alphanumeric tokens, and each
\* scores at least as high as every unselected sentence that has a score.
C2_TopK ==
    Scored =>
        /\ Len(Selected) = Min(req.num_sents, Cardinality(Scorable))
        /\ Cardinality(Range(Selected)) = Len(Selected)
        /\ Range(Selected) \subseteq Scorable
        /\ \A s \in Range(Selected) : \A u \in Scorable \ Range(Selected) :
               ~FracGt(NormScore(u), NormScore(s))
\* a scored document where targetCount sentences were selected and a
\* strictly lower-scoring sentence was left out
C2_Witness ==
    /\ Scored
    /\ Len(Selected) = req.num_sents
    /\ \E s \in Range(Selected) : \E u \in Scorable \ Range(Selected) :
           FracGt(NormScore(s), NormScore(u))
\* a scored document with fewer scorable sentences than targetCount
C2_FewScorable == Scored /\ Cardinality(Scorable) < req.num_sents /\ Len(Selected) > 0

(* ----------------------------- generate_quiz --------------------------- *)
\* nltk pos_tag is library code: the lower-cased tokens it tags NN*
NounLexicon == {<<"d","a","t","a">>, <<"u",".","s",".">>, <<"c","a","t">>, <<"d","o","g">>, <<"f","u","r">>}
\* nouns = list(set(...)): the distinct noun tokens of summary.lower()
Nouns(summary) ==
    LET words == word_tokenize(summary)
    IN {Lower(words[i]) : i \in DOMAIN words} \cap NounLexicon
\* target = random.choice(nouns) if nouns else 'concept'
Targets(summary) == IF Nouns(summary) # {} THEN Nouns(summary) ELSE {<<"c","o","n","c","e","p","t">>}

\* the lexicon random.sample draws the distractors from
DistractorLexicon == {<<"s","y","s","t","e","m">>, <<"m","e","t","h","o","d">>, <<"d","a","t","a">>, <<"m","o","d","e","l">>,
                      <<"p","r","o","c","e","s","s">>, <<"e","x","a","m","p","l","e">>, <<"r","e","s","u","l","t">>}
Blank == <<"_","_","_","_">>

\* random.sample(lexicon, k=3): any three distinct words in any order
Samples == {<<a, b, c>> : a \in DistractorLexicon, b \in DistractorLexicon, c \in DistractorLexicon} \
           {t \in {<<a, b, c>> : a \in DistractorLexicon, b \in DistractorLexicon, c \in DistractorLexicon} :
               t[1] = t[2] \/ t[1] = t[3] \/ t[2] = t[3]}
\* random.shuffle on four options: any permutation of the positions
Perms == {p \in [1..4 -> 1..4] : \A i \in 1..4 : \E j \in 1..4 : p[j] = i}
\* the outcomes of random while one MCQ item is built.  "system" is Python's
\* generator: every outcome.  "stub" is a fixed-sequence generator with two
\* outcomes, used where quizzes hold several MCQ items.
Draws(rnd) ==
    IF rnd = "system"
    THEN {[distractors |-> d, perm |-> p] : d \in Samples, p \in Perms}
    ELSE {[distractors |-> <<<<"s","y","s","t","e","m">>, <<"d","a","t","a">>, <<"r","e","s","u","l","t">>>>, perm |-> p] :
             p \in {<<1, 2, 3, 4>>, <<3, 1, 4, 2>>}}
NoDraw == [distractors |-> <<>>, perm |-> <<>>]

\* options after random.shuffle(options)
Shuffle(options, perm) == [i \in 1..Len(options) |-> options[perm[i]]]
\* list.index(x): 0-based position of the first element equal to x
ListIndex(seq, x) == (CHOOSE i \in DOMAIN seq : seq[i] = x /\ \A j \in 1..(i - 1) : seq[j] # x) - 1

\* pattern.sub('____', sent, count=1): the first case-insensitive occurrence
\* of target is replaced; the occurrence lies inside one token
RECURSIVE BlankFirst(_, _)
BlankFirst(sent, target) ==
    IF sent = <<>> THEN <<>>
    ELSE LET tok == Head(sent)
             o == Find(Lower(target), Lower(tok))
         IN IF o >= 0
            THEN <<SubSeq(tok, 1, o) \o Blank \o SubSeq(tok, o + Len(target) + 1, Len(tok))>>
                 \o Tail(sent)
            ELSE <<tok>> \o BlankFirst(Tail(sent), target)

\* q_type = 'mcq' if i <= num_questions // 2 else 'short'
QTypeOffByOne(i, num_questions) == IF i <= num_questions \div 2 THEN "mcq" ELSE "short"
\* q_type = 'mcq' if i < num_questions // 2 else 'short'
QType(i, num_questions) == IF i < num_questions \div 2 THEN "mcq" ELSE "short"

\* correct = ans_clean, the capitalize() left out
CorrectUncapitalized(ans_clean) == ans_clean
\* correct = ans_clean.capitalize()
Correct(ans_clean) == Capitalize(ans_clean)

\* the body of the loop after the sentence is chosen: one quiz item
BuildItem(i, num_questions, sent, target, draw) ==
    LET question_text == Strip(BlankFirst(sent, target))
        ans_clean == StripPunct(target)
    IN IF QType(i, num_questions) = "mcq"
       THEN LET correct == Correct(ans_clean)
                options == Shuffle(<<correct>> \o draw.distractors, draw.perm)
            IN [type |-> "mcq", question |-> question_text, answer |-> correct,
                options |-> options, correct_idx |-> ListIndex(options, correct)]
       ELSE [type |-> "short", question |-> question_text, answer |-> Lower(ans_clean)]

\* available = sentences[len(used_sentences):], the sentences not yet
\* reached, whatever their text
AvailableByPosition(sentences, used) ==
    {sentences[i] : i \in (Len(used) + 1)..Len(sentences)}
\* available = [s for s in sentences if s not in used_sentences]
Available(sentences, used) == {s \in Range(sentences) : s \notin Range(used)}

\* the loop of generate_quiz from iteration i on: every run it can make,
\* as the quiz built and the sentences used, in order
RECURSIVE QuizLoop(_, _, _, _, _, _)
QuizLoop(summary, num_questions, rnd, i, quiz, used) ==
    IF i >= num_questions \/ Available(sent_tokenize(summary), used) = {}
    THEN {[quiz |-> quiz, used |-> used]}
    ELSE UNION { QuizLoop(summary, num_questions, rnd, i + 1,
                          Append(quiz, BuildItem(i, num_questions, sent, target, draw)),
                          Append(used, sent)) :
                    sent \in Available(sent_tokenize(summary), used),
                    target \in Targets(summary),
                    draw \in IF QType(i, num_questions) = "mcq" THEN Draws(rnd) ELSE {NoDraw} }

\* generate_quiz(summary, num_questions): the runs it can make
generate_quiz(summary, num_questions, rnd) ==
    IF sent_tokenize(summary) = <<>> THEN {[quiz |-> <<>>, used |-> <<>>]}
    ELSE QuizLoop(summary, num_questions, rnd, 0, <<>>, <<>>)

(* ------------------------------ summaries ------------------------------ *)
wData == <<"D","a","t","a">>
wUs == <<"u",".","s",".">>
wThe == <<"t","h","e">>
wIn == <<"i","n">>
\* sentences a summary is made of: "Data are in.", "the u.s..", "are."
SummaryPool ==
    { <<wData, wAre, wIn, Dot>>,
      <<wThe, wUs, Dot>>,
      <<wAre, Dot>> }
Summaries(n) == {Join(<<WS>>, d) : d \in SeqsUpTo(SummaryPool, n)}

\* a pending call generate_quiz(summary, num_questions)
InitQuiz ==
    /\ session = EmptySession
    /\ db = <<>>
    /\ \/ \E summary \in Summaries(MaxSummarySents), n \in 0..MaxQuestions :
              req = [op |-> "generate_quiz", summary |-> summary, num_questions |-> n,
                     rnd |-> "stub"]
       \/ \E summary \in Summaries(MaxSystemSents), n \in 0..MaxSystemQuestions :
              req = [op |-> "generate_quiz", summary |-> summary, num_questions |-> n,
                     rnd |-> "system"]
    /\ resp = NoResp
    /\ quizFrom = <<>>

\* the call of generate_quiz returns
CallGenerateQuiz ==
    /\ req.op = "generate_quiz"
    /\ resp = NoResp
    /\ \E run \in generate_quiz(req.summary, req.num_questions, req.rnd) :
           resp' = [status |-> 200, quiz |-> run.quiz, used |-> run.used]
    /\ UNCHANGED <<session, db, req, quizFrom>>

NextQuiz == CallGenerateQuiz
SpecQuiz == InitQuiz /\ [][NextQuiz]_vars

(* ------------------------- claims: quiz synthesis ---------------------- *)
QuizReturned == req.op = "generate_quiz" /\ resp # NoResp
DistinctSentences == Range(sent_tokenize(req.summary))

\* C4: the quiz has at most questionCount items, no two built from the same
\* source sentence, and its length is the smaller of questionCount and the
\* number of distinct sentences of the summary.
C4_DistinctSources ==
    QuizReturned =>
        /\ Len(resp.quiz) <= req.num_questions
        /\ Len(resp.used) = Len(resp.quiz)
        /\ \A i \in DOMAIN resp.used : \A j \in DOMAIN resp.used :
               i # j => resp.used[i] # resp.used[j]
        /\ Len(resp.quiz) = Min(req.num_questions, Cardinality(DistinctSentences))
\* a quiz of two or more items that stopped early on a summary that repeats
\* a sentence
C4_Witness ==
    /\ QuizReturned
    /\ Len(resp.quiz) >= 2
    /\ Len(resp.quiz) < req.num_questions
    /\ Cardinality(DistinctSentences) < Len(sent_tokenize(req.summary))

\* C5: every MCQ item has exactly 4 pairwise distinct options, the correct
\* answer among them exactly once, and correct_idx is its position.
C5_OptionIntegrity ==
    QuizReturned =>
        \A k \in DOMAIN resp.quiz :
            resp.quiz[k].type = "mcq" =>
                LET q == resp.quiz[k]
                IN /\ Len(q.options) = 4
                   /\ Cardinality(Range(q.options)) = 4
                   /\ Cardinality({i \in 1..4 : q.options[i] = q.answer}) = 1
                   /\ q.correct_idx \in 0..3
                   /\ q.options[q.correct_idx + 1] = q.answer
\* an MCQ item whose target noun is itself a word of the distractor lexicon
\* and was drawn as a distractor, the correct answer not in first place
C5_Witness ==
    /\ QuizReturned
    /\ req.rnd = "system"
    /\ \E k \in DOMAIN resp.quiz :
           /\ resp.quiz[k].type = "mcq"
           /\ Lower(resp.quiz[k].answer) \in Range(resp.quiz[k].options)
           /\ resp.quiz[k].correct_idx = 2

\* C9: the item at position i (from 0) is an MCQ when i < N div 2 and a
\* ShortAnswer otherwise, also when the quiz ends early; the MCQ items come
\* first and there are min(quiz length, N div 2) of them.
C9_TypePolicy ==
    QuizReturned =>
        /\ \A k \in DOMAIN resp.quiz :
               resp.quiz[k].type = (IF k - 1 < req.num_questions \div 2 THEN "mcq" ELSE "short")
        /\ \A k \in DOMAIN resp.quiz : \A m \in DOMAIN resp.quiz :
               (resp.quiz[k].type = "mcq" /\ resp.quiz[m].type = "short") => k < m
        /\ Cardinality({k \in DOMAIN resp.quiz : resp.quiz[k].type = "mcq"})
               = Min(Len(resp.quiz), req.num_questions \div 2)
\* a quiz that ended early holding both kinds of item
C9_Witness ==
    /\ QuizReturned
    /\ Len(resp.quiz) < req.num_questions
    /\ \E k \in DOMAIN resp.quiz : resp.quiz[k].type = "mcq"
    /\ \E k \in DOMAIN resp.quiz : resp.quiz[k].type = "short"

(* -------------------------------- grading ------------------------------ *)
\* a posted answer: a JSON number (an option index) or a JSON string
IntAnswer(n) == [kind |-> "int", n |-> n, s |-> <<>>]
StrAnswer(s) == [kind |-> "str", n |-> 0, s |-> s]

\* (user_ans or "").strip().lower() raises AttributeError for a number
\* other than 0, which has no strip()
Raises(q, user_ans) == q.type = "short" /\ user_ans.kind = "int" /\ user_ans.n # 0
\* user_text, the lower() left out
UserTextAsTyped(user_ans) == IF user_ans.kind = "str" THEN StripStr(user_ans.s) ELSE <<>>
\* user_text = (user_ans or "").strip().lower()
UserText(user_ans) == IF user_ans.kind = "str" THEN Lower(StripStr(user_ans.s)) ELSE <<>>

\* is_correct for one graded item
IsCorrect(q, user_ans) ==
    IF q.type = "mcq" THEN user_ans.kind = "int" /\ user_ans.n = q.correct_idx
    ELSE IF q.type = "short"
         THEN Contains(q.answer, UserText(user_ans)) /\ Len(UserText(user_ans)) > 0
    ELSE FALSE

\* the items the loop visits: for i, user_ans in enumerate(answers), until
\* i >= len(quiz)
Graded(quiz, answers) == 1..(IF Len(answers) < Len(quiz) THEN Len(answers) ELSE Len(quiz))
\* per_question
PerQuestion(quiz, answers) ==
    [i \in Graded(quiz, answers) |-> IF IsCorrect(quiz[i], answers[i]) THEN 1 ELSE 0]
\* weak_areas before deduplication: the answers of the missed items, in order
RECURSIVE MissedAnswers(_, _, _)
MissedAnswers(quiz, answers, i) ==
    IF i \notin Graded(quiz, answers) THEN <<>>
    ELSE (IF IsCorrect(quiz[i], answers[i]) THEN <<>> ELSE <<quiz[i].answer>>)
         \o MissedAnswers(quiz, answers, i + 1)
\* score, every graded item counted
ScoreCountsAll(per_question) == Len(per_question)
\* score: += 1 for each correct item
Score(per_question) == SumSeq(per_question)
\* total = len(per_question) or 1
Total(per_question) == IF Len(per_question) = 0 THEN 1 ELSE Len(per_question)
\* every list over the elements of S without repetition
RECURSIVE Orderings(_)
Orderings(S) ==
    IF S = {} THEN {<<>>}
    ELSE UNION {{<<x>> \o rest : rest \in Orderings(S \ {x})} : x \in S}
\* list(weak_areas)[:5], the set() left out
WeakAreasNoSet(missed) == {Prefix(missed, 5)}
\* list(set(weak_areas))[:5]: a set iterates in an order of its own
WeakAreas(missed) == {Prefix(o, 5) : o \in Orderings(Range(missed))}
\* round(score / total * 100, 1), in tenths of a percent (ties to even)
Percentage(score, total) ==
    LET q == (score * 1000) \div total
        r == (score * 1000) % total
    IN IF 2 * r < total THEN q
       ELSE IF 2 * r > total THEN q + 1
       ELSE IF q % 2 = 0 THEN q ELSE q + 1

(* ------------------------------- routes -------------------------------- *)
\* num_sents=4, the default summarize_api runs extractive_summary with
DefaultNumSents == 4
\* num_questions=6, the default quiz_page runs generate_quiz with
DefaultNumQuestions == 6
Modes == {"paragraph", "bullets", "outline"}
\* the bullet mark, written * here
Bullet == <<"*">>
Dash == <<"-">>
\* '\n'.join(f"{mark} {s.strip()}" for s in sentences)
RenderList(mark, sentences) ==
    Join(<<NL>>, [i \in DOMAIN sentences |-> <<mark, WS>> \o Strip(sentences[i])])
\* text.strip(), the strip left out
StripNothing(text) == text
\* data.get('text', '').strip()
RequestText(text) == Strip(text)

\* POST /summarize
summarize_api(text, mode) ==
    /\ req' = [op |-> "summarize", text |-> text, mode |-> mode]
    /\ IF RequestText(text) = <<>>
       THEN /\ resp' = [status |-> 400, summarized |-> FALSE]
            /\ UNCHANGED <<session, db, quizFrom>>
       ELSE LET base_summary == extractive_summary(RequestText(text), DefaultNumSents)
                summary == IF mode = "bullets"
                           THEN RenderList(Bullet, sent_tokenize(base_summary))
                           ELSE IF mode = "outline"
                           THEN RenderList(Dash, sent_tokenize(base_summary))
                           ELSE base_summary
            IN /\ session' = [session EXCEPT !.summary = summary,
                                             !.raw_text = RequestText(text)]
               /\ resp' = [status |-> 200, summarized |-> TRUE]
               /\ UNCHANGED <<db, quizFrom>>

InfoItem == [type |-> "info", question |-> <<>>, answer |-> <<>>, options |-> <<>>,
             correct_idx |-> -1]

\* GET /quiz
quiz_page ==
    /\ req' = [op |-> "quiz"]
    /\ IF session.summary = <<>>
       THEN /\ resp' = [status |-> 302]
            /\ UNCHANGED <<session, db, quizFrom>>
       ELSE \E run \in generate_quiz(session.summary, DefaultNumQuestions, "stub") :
                /\ session' = [session EXCEPT
                                  !.quiz = IF run.quiz = <<>> THEN <<InfoItem>> ELSE run.quiz]
                /\ quizFrom' = session.summary
                /\ resp' = [status |-> 200]
                /\ UNCHANGED db

\* POST /feedback
feedback_api(answers) ==
    /\ Len(db) < MaxLog
    /\ req' = [op |-> "feedback", answers |-> answers]
    /\ LET quiz == session.quiz
       IN IF \E i \in Graded(quiz, answers) : Raises(quiz[i], answers[i])
          THEN /\ resp' = [status |-> 500]
               /\ UNCHANGED <<session, db, quizFrom>>
          ELSE LET per_question == PerQuestion(quiz, answers)
                   score == Score(per_question)
                   total == Total(per_question)
                   percentage == Percentage(score, total)
               IN \E weak_areas \in WeakAreas(MissedAnswers(quiz, answers, 1)) :
                      /\ session' = [session EXCEPT !.stats =
                             [present |-> TRUE, score |-> score, total |-> total,
                              percentage |-> percentage, per_question |-> per_question,
                              weak_areas |-> weak_areas]]
                      /\ db' = Append(db, [summary |-> session.summary, score |-> score,
                                           total |-> total, percentage |-> percentage])
                      /\ resp' = [status |-> 200]
                      /\ UNCHANGED quizFrom

(* ------------------------------ the session ---------------------------- *)
\* request bodies posted to /summarize: an empty and a whitespace-only text,
\* and the five-sentence note " dog. o-k! o-k! dog. o-k! ", of which one
\* distinct sentence can be scored
BlankTexts == {<<>>, <<NL, WS>>}
NoteTexts ==
    { <<WS>> \o Join(<<WS>>, << <<wDog, Dot>>, <<wOk, <<"!">>>>, <<wOk, <<"!">>>>,
                                <<wDog, Dot>>, <<wOk, <<"!">>>> >>) \o <<WS>> }
\* answers a form posts: option index 0 or 1, or the text " DaTa u.S "
AnswerValues ==
    { IntAnswer(0), IntAnswer(1),
      StrAnswer(<<" ","D","a","T","a"," ","u",".","S"," ">>) }

Init ==
    /\ session = EmptySession
    /\ db = <<>>
    /\ req = [op |-> "none"]
    /\ resp = NoResp
    /\ quizFrom = <<>>

SummarizeApi == \E text \in BlankTexts \cup NoteTexts, mode \in Modes : summarize_api(text, mode)
QuizPage == quiz_page
FeedbackApi == \E answers \in SeqsUpTo(AnswerValues, MaxSessionAnswers) : feedback_api(answers)

Next == SummarizeApi \/ QuizPage \/ FeedbackApi
Spec == Init /\ [][Next]_vars


(* ------------------------------ grading alone -------------------------- *)
\* a six-item quiz as generate_quiz(summary, 6) builds it from a summary of
\* six distinct sentences naming data, u.s. and cat: three MCQ items, three
\* ShortAnswer items, six distinct answers
SixSentences ==
    << <<wData, wAre, wIn, Dot>>, <<wThe, wUs, Dot>>, <<wThe, wCat, Dot>>,
       <<wCat, wCat, Dot>>, <<wUs, wAre, Dot>>, <<wIn, wData, Dot>> >>
SixTargets == << Lower(wData), wUs, wCat, Lower(wData), wUs, wCat >>
SixItemQuiz ==
    [k \in 1..6 |->
        BuildItem(k - 1, DefaultNumQuestions, SixSentences[k], SixTargets[k],
                  CHOOSE d \in Draws("stub") : d.perm[1] = (IF k = 2 THEN 3 ELSE 1))]
\* the quizzes a session holds when /feedback is posted: none, the
\* placeholder of quiz_page, the quizzes of a two-sentence summary for two
\* and for six questions, and the six-item quiz
TwoSentenceSummary == Join(<<WS>>, << <<wData, wAre, wIn, Dot>>, <<wThe, wUs, Dot>> >>)
GradeQuizzes ==
    {<<>>, <<InfoItem>>, SixItemQuiz}
    \cup {run.quiz : run \in generate_quiz(TwoSentenceSummary, 2, "stub")}
    \cup {run.quiz : run \in generate_quiz(TwoSentenceSummary, DefaultNumQuestions, "stub")}
PriorRow == [summary |-> <<>>, score |-> 0, total |-> 1, percentage |-> 0]

\* a session holding a quiz, the log one row short of MaxLog, and an answer
\* list about to be posted
InitGrade ==
    /\ \E quiz \in GradeQuizzes :
           session = [EmptySession EXCEPT !.summary = TwoSentenceSummary, !.quiz = quiz]
    /\ db = [i \in 1..(MaxLog - 1) |-> PriorRow]
    /\ \E answers \in SeqsUpTo(AnswerValues, MaxAnswers) :
           req = [op |-> "post", answers |-> answers]
    /\ resp = NoResp
    /\ quizFrom = TwoSentenceSummary

\* the pending answer list is posted to /feedback
Grade == req.op = "post" /\ feedback_api(req.answers)
NextGrade == Grade
SpecGrade == InitGrade /\ [][NextGrade]_vars

(* ----------------------------- claims: grading ------------------------- *)
GradedNow == req.op = "feedback" /\ resp.status = 200
Stats == session.stats
NumGraded == Min(Len(req.answers), Len(session.quiz))
\* key occurs in text, letter case ignored
OccursIgnoringCase(key, text) ==
    \E o \in 0..(Len(text) - Len(key)) :
        \A k \in 1..Len(key) : LowerChar(text[o + k]) = LowerChar(key[k])
\* the answer as text, its surrounding whitespace removed
Trimmed(user_ans) == IF user_ans.kind = "str" THEN StripStr(user_ans.s) ELSE <<>>
MissedKeys == {session.quiz[i].answer : i \in {j \in 1..NumGraded : Stats.per_question[j] = 0}}

\* C6: exactly the first min(len(answers), len(quiz)) items are graded:
\* perQuestion has that length, total is that length floored at 1, score is
\* the number of 1s; no answers give total 1, score 0, percentage 0.0, [].
C6_GradedPrefix ==
    GradedNow =>
        /\ Len(Stats.per_question) = NumGraded
        /\ \A i \in DOMAIN Stats.per_question : Stats.per_question[i] \in {0, 1}
        /\ Stats.total = (IF NumGraded = 0 THEN 1 ELSE NumGraded)
        /\ Stats.score = Cardinality({i \in DOMAIN Stats.per_question : Stats.per_question[i] = 1})
        /\ req.answers = <<>> =>
               /\ Stats.total = 1
               /\ Stats.score = 0
               /\ Stats.percentage = 0
               /\ Stats.per_question = <<>>
\* more answers than items, fewer items correct than graded, one correct
C6_Witness ==
    /\ GradedNow
    /\ Len(req.answers) > Len(session.quiz)
    /\ Len(session.quiz) >= 2
    /\ Stats.score >= 1
    /\ Stats.score < Stats.total
\* a six-item quiz posted without answers
C6_NoAnswers == GradedNow /\ req.answers = <<>> /\ Len(session.quiz) = 6
\* fewer answers than items: the unanswered tail is not graded
C6_ShortAnswers ==
    GradedNow /\ Len(req.answers) > 0 /\ Len(req.answers) < Len(session.quiz)
        /\ Stats.total = Len(req.answers)

\* C7: a graded item is marked correct iff it is an MCQ answered with its
\* correct index, or a ShortAnswer whose key occurs, case ignored, in the
\* trimmed submitted text and that text is not empty; another type never is.
C7_CorrectIff ==
    GradedNow =>
        \A i \in 1..NumGraded :
            LET q == session.quiz[i]
                a == req.answers[i]
            IN (Stats.per_question[i] = 1) <=>
                   \/ q.type = "mcq" /\ a.kind = "int" /\ a.n = q.correct_idx
                   \/ /\ q.type = "short"
                      /\ OccursIgnoringCase(q.answer, Trimmed(a))
                      /\ Trimmed(a) # <<>>
\* a ShortAnswer marked correct on a text in mixed case, an MCQ marked correct
\* and a ShortAnswer marked wrong, in one grading
C7_Witness ==
    /\ GradedNow
    /\ \E i \in 1..NumGraded :
           /\ session.quiz[i].type = "short"
           /\ Stats.per_question[i] = 1
           /\ Lower(req.answers[i].s) # req.answers[i].s
    /\ \E i \in 1..NumGraded : session.quiz[i].type = "mcq" /\ Stats.per_question[i] = 1
    /\ \E i \in 1..NumGraded : session.quiz[i].type = "short" /\ Stats.per_question[i] = 0
\* the placeholder item was graded
C7_InfoGraded == GradedNow /\ NumGraded = 1 /\ session.quiz[1].type = "info"

\* C8: weakAreas holds at most 5 pairwise distinct values, each the answer
\* key of a graded item marked incorrect; when the missed items have 5 or
\* fewer distinct keys, all of them are there.
C8_WeakAreas ==
    GradedNow =>
        /\ Len(Stats.weak_areas) <= 5
        /\ \A i \in DOMAIN Stats.weak_areas : \A j \in DOMAIN Stats.weak_areas :
               i # j => Stats.weak_areas[i] # Stats.weak_areas[j]
        /\ Range(Stats.weak_areas) \subseteq MissedKeys
        /\ Cardinality(MissedKeys) <= 5 => Range(Stats.weak_areas) = MissedKeys
\* six missed items with six distinct keys: five of them are kept
C8_Witness == GradedNow /\ Cardinality(MissedKeys) = 6 /\ Len(Stats.weak_areas) = 5
\* two missed items with the same key: it is kept once
C8_Duplicate ==
    /\ GradedNow
    /\ \E i \in 1..NumGraded : \E j \in 1..NumGraded :
           /\ i # j
           /\ Stats.per_question[i] = 0
           /\ Stats.per_question[j] = 0
           /\ session.quiz[i].answer = session.quiz[j].answer
    /\ Len(Stats.weak_areas) = 1

(* --------------------------- claims: the session ----------------------- *)
\* the part of the session C3 names: summary, raw text, quiz and stats
Stored == <<session.summary, session.raw_text, session.quiz, session.stats>>

\* C3: a summarize request whose text is empty or only whitespace is
\* answered with an error, the summarizer not run, and the session's stored
\* summary, raw text, quiz and stats (and the log) are left as they were.
C3_BlankRejected ==
    [][ (req'.op = "summarize" /\ \A i \in DOMAIN req'.text : IsWs(req'.text[i]))
            => /\ resp'.status = 400
               /\ ~resp'.summarized
               /\ Stored' = Stored
               /\ db' = db ]_vars
\* a whitespace-only text was rejected in a session that holds a summary, a
\* quiz and stats
C3_Witness ==
    /\ req.op = "summarize"
    /\ req.text # <<>>
    /\ \A i \in DOMAIN req.text : IsWs(req.text[i])
    /\ resp.status = 400
    /\ session.summary # <<>>
    /\ session.quiz # <<>>
    /\ session.stats.present

\* C10: every row feedback writes for a request that graded at least one
\* item pairs its score and total with the summary the graded quiz was
\* generated from.
C10_RowPairsQuizSummary ==
    [][ (req'.op = "feedback" /\ Len(db') > Len(db)
           /\ Graded(session.quiz, req'.answers) # {})
            => db'[Len(db')].summary = quizFrom ]_vars

====
